---- MODULE Spec2Model ----
(***************************************************************************)
(* The "dummy" source/extractor plugin (plugins/dummy/dummy.go).           *)
(*                                                                         *)
(* One MyPlugin (jitter, rand) and a fixed pool of MyInstance slots.  The  *)
(* host may drive NextBatch on different instances from different threads, *)
(* so NextBatch is modelled at the grain of its loop: entry, loop head     *)
(* (counter++ and the call into rand.Int63n), the end of the draw (the     *)
(* update of sample) and the emission of the event (Itoa, SetTimestamp,    *)
(* Write).  Go's uint64/int are WordBits wide here; every conversion       *)
(* between them is computed as Go computes it.                             *)
(***************************************************************************)
EXTENDS Integers, Sequences, FiniteSets, TLC

\* ---------------------------------------------------------------- bounds
WordBits == 5            \* width of uint64 / int / int64 in the model
MaxEventsBound == 2      \* largest "maxEvents" the host passes to Open
MaxCap == 2              \* largest evts.Len() the host passes to NextBatch
MaxDigits == 2           \* longest payload / argument string, after its sign

Word == 2 ^ WordBits             \* 1 << 64 in the program
Half == 2 ^ (WordBits - 1)       \* 1 << 63 in the program
UInt == 0 .. (Word - 1)          \* the values of a uint64
Sessions == {1, 2}                \* the MyInstance slots of the model

\* ------------------------------------------------------- program constants
DefaultJitter == 10      \* var jitter uint64 = 10

\* ------------------------------------------------------ integer conversions
\* uint64 arithmetic: the result of + on uint64 operands.
ToUint64(x) == x % Word

\* int(u), int64(u) for a uint64 u: two's complement reinterpretation.
ToInt(u) == IF u >= Half THEN u - Word ELSE u

\* ------------------------------------------------------------ strconv.Itoa
DigitChar == <<"0", "1", "2", "3", "4", "5", "6", "7", "8", "9">>

RECURSIVE Digits(_)
\* decimal digits of a natural number, most significant first
Digits(k) ==
    IF k < 10 THEN <<DigitChar[k + 1]>>
    ELSE Digits(k \div 10) \o <<DigitChar[(k % 10) + 1]>>

\* strconv.Itoa(i): a "-" and the digits of -i for a negative i
Itoa(i) == IF i < 0 THEN <<"-">> \o Digits(0 - i) ELSE Digits(i)

\* str := strconv.Itoa(int(m.sample))
EventString(sample) == Itoa(ToInt(sample))

\* --------------------------------------------------------- host inputs
\* cfg of Init: "" | "{}" | a JSON object | something json.Unmarshal rejects.
\* An object is the key set and the value of "jitter" that Unmarshal yields.
JitterInputs == {0, 1, Half - 1, Word - 1}

Cfgs ==
    {[kind |-> "empty", keys |-> {}, jitter |-> 0],
     [kind |-> "braces", keys |-> {}, jitter |-> 0],
     [kind |-> "object", keys |-> {"other"}, jitter |-> 0],
     [kind |-> "malformed", keys |-> {}, jitter |-> 0]}
    \cup {[kind |-> "object", keys |-> {"jitter"}, jitter |-> j] : j \in JitterInputs}

\* prms of Open: a JSON object with some of "start", "maxEvents", or
\* something json.Unmarshal rejects.
StartInputs == {0, Half - 1, Word - 1}

Prms ==
    {[valid |-> TRUE, keys |-> {"start", "maxEvents"}, start |-> st, maxEvents |-> mx] :
        st \in StartInputs, mx \in 0 .. MaxEventsBound}
    \cup {[valid |-> TRUE, keys |-> {"start"}, start |-> 0, maxEvents |-> 0],
          [valid |-> TRUE, keys |-> {"maxEvents"}, start |-> 0, maxEvents |-> 1],
          [valid |-> TRUE, keys |-> {}, start |-> 0, maxEvents |-> 0],
          [valid |-> FALSE, keys |-> {}, start |-> 0, maxEvents |-> 0]}

NoPrms == [valid |-> FALSE, keys |-> {}, start |-> 0, maxEvents |-> 0]

\* obj[k] on a map[string]uint64: the zero value for an absent key
Lookup(prms, k) ==
    IF k \notin prms.keys THEN 0
    ELSE IF k = "start" THEN prms.start ELSE prms.maxEvents

\* ------------------------------------------------------------------ state
VARIABLES
    jitter,      \* MyPlugin.jitter
    randSet,     \* MyPlugin.rand # nil
    panicked,    \* "no", or the runtime panic that ended the process
    inst,        \* MyInstance per slot: state, initParams, maxEvents, counter, sample
    pc,          \* where each instance's NextBatch call stands
    n,           \* the local n of each running NextBatch
    evts,        \* the sdk.EventWriters of each instance's current/last call
    ret,         \* what each instance's last NextBatch returned: (n, err)
    delivered,   \* history: sum of the counts NextBatch returned, per instance
    written,     \* history: events whose Write succeeded, per instance
    lastGood,    \* history: sample of the last event whose Write succeeded
    last         \* the last call on MyPlugin (Init, Open, String, Extract): its
                 \* input, the error it returned and the value it produced
                 \* (for String and Extract also what the error message names)

vars ==
    <<jitter, randSet, panicked, inst, pc, n, evts, ret, delivered, written, lastGood, last>>

NoInstance ==
    [state |-> "none", initParams |-> NoPrms, maxEvents |-> 0, counter |-> 0, sample |-> 0]

\* a slot of evts, as the host hands it over: no timestamp, no payload
FreshSlot == [ts |-> FALSE, data |-> <<>>, ok |-> FALSE]

NoRet == [n |-> 0, err |-> "none"]

\* a value a call hands back: none, a uint64, or a string
NoValue == [t |-> "none", u |-> 0, s |-> <<>>]
U64Value(u) == [t |-> "uint64", u |-> u, s |-> <<>>]
StrValue(s) == [t |-> "string", u |-> 0, s |-> s]

NoCall == [op |-> "none", in |-> <<>>, err |-> "nil", val |-> NoValue]

Init ==
    /\ jitter = 0
    /\ randSet = FALSE
    /\ panicked = "no"
    /\ inst = [s \in Sessions |-> NoInstance]
    /\ pc = [s \in Sessions |-> "idle"]
    /\ n = [s \in Sessions |-> 0]
    /\ evts = [s \in Sessions |-> <<>>]
    /\ ret = [s \in Sessions |-> NoRet]
    /\ delivered = [s \in Sessions |-> 0]
    /\ written = [s \in Sessions |-> 0]
    /\ lastGood = [s \in Sessions |-> 0]
    /\ last = NoCall

\* ----------------------------------------------------------- MyPlugin.Init
\* mutant of ConfiguredJitter: the default is forgotten
ConfiguredJitterNoDefault(cfg) == cfg.jitter

\* The jitter Init settles on, for a cfg json.Unmarshal accepts.
ConfiguredJitter(cfg) ==
    IF cfg.kind \in {"empty", "braces"} THEN DefaultJitter
    ELSE IF "jitter" \in cfg.keys THEN cfg.jitter
    ELSE DefaultJitter

\* func (m *MyPlugin) Init(cfg string) error.  The host initialises the
\* plugin before it opens any instance.
PluginInit(cfg) ==
    /\ panicked = "no"
    /\ \A s \in Sessions : inst[s].state = "none"
    /\ IF cfg.kind = "malformed"
       THEN /\ last' = [op |-> "Init", in |-> cfg, err |-> "unmarshal", val |-> NoValue]
            /\ UNCHANGED <<jitter, randSet>>
       ELSE /\ jitter' = ConfiguredJitter(cfg)
            /\ randSet' = TRUE
            /\ last' = [op |-> "Init", in |-> cfg, err |-> "nil", val |-> NoValue]
    /\ UNCHANGED <<panicked, inst, pc, n, evts, ret, delivered, written, lastGood>>

\* ----------------------------------------------------------- MyPlugin.Open
\* mutant of OpenResult: the check for maxEvents is missing
OpenResultNoMaxCheck(prms) ==
    IF ~prms.valid THEN "parse"
    ELSE IF "start" \notin prms.keys THEN "no start"
    ELSE "ok"

\* Open's result: "ok", or which error it returns.
OpenResult(prms) ==
    IF ~prms.valid THEN "parse"
    ELSE IF "start" \notin prms.keys THEN "no start"
    ELSE IF "maxEvents" \notin prms.keys THEN "no maxEvents"
    ELSE "ok"

\* &MyInstance{initParams: prms, maxEvents: obj["maxEvents"], counter: 0,
\*             sample: obj["start"]}
NewInstance(prms) ==
    [state |-> "open", initParams |-> prms, maxEvents |-> Lookup(prms, "maxEvents"),
     counter |-> 0, sample |-> Lookup(prms, "start")]

\* func (m *MyPlugin) Open(prms string) (source.Instance, error)
Open(s, prms) ==
    /\ panicked = "no"
    /\ randSet
    /\ inst[s].state = "none"
    /\ IF OpenResult(prms) = "ok"
       THEN /\ inst' = [inst EXCEPT ![s] = NewInstance(prms)]
            /\ lastGood' = [lastGood EXCEPT ![s] = Lookup(prms, "start")]
       ELSE UNCHANGED <<inst, lastGood>>
    /\ last' = [op |-> "Open", in |-> prms, err |-> OpenResult(prms), val |-> NoValue]
    /\ UNCHANGED <<jitter, randSet, panicked, pc, n, evts, ret, delivered, written>>

\* func (m *MyInstance) Close(); the host makes no call on a closed instance,
\* and nothing of it is kept.
ClosedInstance ==
    [state |-> "closed", initParams |-> NoPrms, maxEvents |-> 0, counter |-> 0, sample |-> 0]

Close(s) ==
    /\ panicked = "no"
    /\ inst[s].state = "open"
    /\ pc[s] = "idle"
    /\ inst' = [inst EXCEPT ![s] = ClosedInstance]
    /\ n' = [n EXCEPT ![s] = 0]
    /\ evts' = [evts EXCEPT ![s] = <<>>]
    /\ ret' = [ret EXCEPT ![s] = NoRet]
    /\ delivered' = [delivered EXCEPT ![s] = 0]
    /\ written' = [written EXCEPT ![s] = 0]
    /\ lastGood' = [lastGood EXCEPT ![s] = 0]
    /\ UNCHANGED <<last, jitter, randSet, panicked, pc>>

\* ----------------------------------------------------- MyInstance.NextBatch
\* mutant of AtEOF: the test is off by one (> for >=)
AtEOFStrict(s) == inst[s].counter > inst[s].maxEvents

\* if m.counter >= m.maxEvents { return 0, sdk.ErrEOF }
AtEOF(s) == inst[s].counter >= inst[s].maxEvents

\* entry of NextBatch with an evts of capacity c: the EOF check, then n = 0
NextBatch(s, c) ==
    /\ panicked = "no"
    /\ inst[s].state = "open"
    /\ pc[s] = "idle"
    /\ evts' = [evts EXCEPT ![s] = [i \in 1 .. c |-> FreshSlot]]
    /\ n' = [n EXCEPT ![s] = 0]
    /\ IF AtEOF(s)
       THEN /\ ret' = [ret EXCEPT ![s] = [n |-> 0, err |-> "EOF"]]
            /\ UNCHANGED pc
       ELSE /\ ret' = [ret EXCEPT ![s] = NoRet]
            /\ pc' = [pc EXCEPT ![s] = "loop"]
    /\ UNCHANGED <<last, jitter, randSet, panicked, inst, delivered, written, lastGood>>

\* mutant of LoopCond: the loop test without m.counter < m.maxEvents
LoopCondNoMax(s) == n[s] < Len(evts[s])

\* mutant of LoopCond: the loop test without n < evts.Len()
LoopCondNoCap(s) == inst[s].counter < inst[s].maxEvents

\* the loop test: m.counter < m.maxEvents && n < evts.Len()
LoopCond(s) == inst[s].counter < inst[s].maxEvents /\ n[s] < Len(evts[s])

\* int64(myPlugin.jitter+1), the argument of rand.Int63n
Int63nArg == ToInt(ToUint64(jitter + 1))

\* the loop head: leave with (n, nil), or take evts.Get(n), m.counter++ and
\* call rand.Int63n, which panics on an argument <= 0
LoopHead(s) ==
    /\ panicked = "no"
    /\ pc[s] = "loop"
    /\ IF LoopCond(s)
       THEN /\ inst' = [inst EXCEPT ![s].counter = ToUint64(@ + 1)]
            /\ IF Int63nArg <= 0
               THEN panicked' = "Int63n" /\ UNCHANGED pc
               ELSE pc' = [pc EXCEPT ![s] = "inrand"] /\ UNCHANGED panicked
            /\ UNCHANGED <<ret, delivered>>
       ELSE /\ ret' = [ret EXCEPT ![s] = [n |-> n[s], err |-> "nil"]]
            /\ delivered' = [delivered EXCEPT ![s] = @ + n[s]]
            /\ pc' = [pc EXCEPT ![s] = "idle"]
            /\ UNCHANGED <<inst, panicked>>
    /\ UNCHANGED <<last, jitter, randSet, n, evts, written, lastGood>>

\* m.sample += 1 + uint64(r), r the value Int63n returned
NextSample(sample, r) == ToUint64(sample + ToUint64(1 + r))

\* the instances inside myPlugin.rand.Int63n other than s
OthersInRand(s) == {t \in Sessions \ {s} : pc[t] = "inrand"}

\* mutant of DrawEnd: sample kept in the plugin, not in the instance, so
\* that a draw moves the sample of every open instance
DrawEndSharedSample(s) ==
    /\ panicked = "no"
    /\ pc[s] = "inrand"
    /\ \E r \in 0 .. (Int63nArg - 1) :
        /\ inst' = [t \in Sessions |->
                        IF inst[t].state = "open"
                        THEN [inst[t] EXCEPT !.sample = NextSample(@, r)]
                        ELSE inst[t]]
        /\ pc' = [pc EXCEPT ![s] = "emit"]
    /\ UNCHANGED <<last, jitter, randSet, panicked, n, evts, ret, delivered, written, lastGood>>

\* the end of the draw.  rand.Rand has no lock: a draw that overlaps another
\* instance's draw races on the source's state, and either still returns a
\* value in [0, n) or panics on the source's indices.
DrawEnd(s) ==
    /\ panicked = "no"
    /\ pc[s] = "inrand"
    /\ \/ \E r \in 0 .. (Int63nArg - 1) :
            /\ inst' = [inst EXCEPT ![s].sample = NextSample(@, r)]
            /\ pc' = [pc EXCEPT ![s] = "emit"]
            /\ UNCHANGED panicked
       \/ /\ OthersInRand(s) # {}
          /\ panicked' = "rand race"
          /\ UNCHANGED <<inst, pc>>
    /\ UNCHANGED <<last, jitter, randSet, n, evts, ret, delivered, written, lastGood>>

\* evt.SetTimestamp(...) and a successful Write of str into slot n
WrittenSlot(sample) == [ts |-> TRUE, data |-> EventString(sample), ok |-> TRUE]

\* evt.SetTimestamp(...) and a Write that returned an error
FailedSlot == [ts |-> TRUE, data |-> <<>>, ok |-> FALSE]

\* what NextBatch returns when Write fails: return 0, err
WriteErrorReturn(s) == [n |-> 0, err |-> "io"]

\* str, SetTimestamp, Write; then n++ and back to the loop test, or the
\* error return
Emit(s) ==
    /\ panicked = "no"
    /\ pc[s] = "emit"
    /\ \/ /\ evts' = [evts EXCEPT ![s][n[s] + 1] = WrittenSlot(inst[s].sample)]
          /\ n' = [n EXCEPT ![s] = @ + 1]
          /\ pc' = [pc EXCEPT ![s] = "loop"]
          /\ written' = [written EXCEPT ![s] = @ + 1]
          /\ lastGood' = [lastGood EXCEPT ![s] = inst[s].sample]
          /\ UNCHANGED <<ret, delivered>>
       \/ /\ evts' = [evts EXCEPT ![s][n[s] + 1] = FailedSlot]
          /\ ret' = [ret EXCEPT ![s] = WriteErrorReturn(s)]
          /\ delivered' = [delivered EXCEPT ![s] = @ + WriteErrorReturn(s).n]
          /\ pc' = [pc EXCEPT ![s] = "idle"]
          /\ UNCHANGED <<n, written, lastGood>>
    /\ UNCHANGED <<last, jitter, randSet, panicked, inst>>

\* ------------------------------------------------------------ strconv.Atoi
IsDigit(c) == \E d \in DOMAIN DigitChar : DigitChar[d] = c

DigitValue(c) == (CHOOSE d \in DOMAIN DigitChar : DigitChar[d] = c) - 1

RECURSIVE Decimal(_)
\* the number a sequence of decimal digits denotes
Decimal(ds) ==
    IF ds = <<>> THEN 0
    ELSE 10 * Decimal(SubSeq(ds, 1, Len(ds) - 1)) + DigitValue(ds[Len(ds)])

\* strconv.Atoi(str): an optional sign and at least one decimal digit;
\* ErrSyntax for anything else, ErrRange for a number that does not fit int
Atoi(str) ==
    LET signed == str # <<>> /\ str[1] \in {"+", "-"}
        ds == IF signed THEN Tail(str) ELSE str
        v == IF signed /\ str[1] = "-" THEN 0 - Decimal(ds) ELSE Decimal(ds)
    IN  IF ds = <<>> \/ \E i \in DOMAIN ds : ~IsDigit(ds[i])
        THEN [err |-> "invalid syntax", val |-> 0]
        ELSE IF v < 0 - Half THEN [err |-> "value out of range", val |-> 0 - Half]
        ELSE IF v > Half - 1 THEN [err |-> "value out of range", val |-> Half - 1]
        ELSE [err |-> "nil", val |-> v]

\* a % b on ints, b # 0: the remainder of the division truncated towards
\* zero, which has the sign of a
GoRem(a, b) ==
    LET abs(x) == IF x < 0 THEN 0 - x ELSE x
        r == abs(a) % abs(b)
    IN  IF a < 0 THEN 0 - r ELSE r

\* -------------------------------------------------------- MyPlugin.String
\* fmt.Sprintf("{\"sample\": \"%s\"}", evtStr)
Rendering(evtStr) ==
    <<"{", "\"", "s", "a", "m", "p", "l", "e", "\"", ":", " ", "\"">> \o evtStr \o <<"\"", "}">>

\* in is what the io.ReadSeeker yields: its bytes, or a read error
String(in) ==
    /\ panicked = "no"
    /\ last' = IF in.readable
               THEN [op |-> "String", in |-> in, err |-> "nil",
                     val |-> StrValue(Rendering(in.data)), msg |-> <<>>]
               ELSE [op |-> "String", in |-> in, err |-> "read",
                     val |-> StrValue(<<>>), msg |-> <<>>]
    /\ UNCHANGED <<jitter, randSet, panicked, inst, pc, n, evts, ret, delivered, written, lastGood>>

\* -------------------------------------------------------- MyPlugin.Fields
Fields ==
    <<[Type |-> "uint64", Name |-> "dummy.divisible", ArgRequired |-> TRUE],
      [Type |-> "uint64", Name |-> "dummy.value", ArgRequired |-> FALSE],
      [Type |-> "string", Name |-> "dummy.strvalue", ArgRequired |-> FALSE]>>

\* ------------------------------------------------------- MyPlugin.Extract
\* mutant of Divisible: the test is inverted
DivisibleInverted(evtVal, divisor) == GoRem(evtVal, divisor) # 0

\* evtVal%divisor == 0, for a divisor other than 0
Divisible(evtVal, divisor) == GoRem(evtVal, divisor) = 0

\* mutant of FieldCase: the switch has no default, the last case takes the rest
FieldCaseNoDefault(id) ==
    CASE id = 0 -> "dummy.divisible"
      [] id = 1 -> "dummy.value"
      [] OTHER -> "dummy.strvalue"

\* switch req.FieldID()
FieldCase(id) ==
    CASE id = 0 -> "dummy.divisible"
      [] id = 1 -> "dummy.value"
      [] id = 2 -> "dummy.strvalue"
      [] OTHER -> "default"

\* What Extract returns for a request req = (FieldID, Field, Arg) on an event
\* whose reader yields evt: the error, what its message names, and the value
\* handed to req.SetValue.  err = "panic" is the run-time panic of
\* evtVal%divisor with divisor = 0 (integer divide by zero).
ExtractResult(req, evt) ==
    LET evtStr == evt.data
        evtVal == Atoi(evtStr)
        divisor == Atoi(req.arg)
        Result(e, m, v) == [err |-> e, msg |-> m, val |-> v]
    IN  IF ~evt.readable THEN Result("read", <<>>, NoValue)
        ELSE IF evtVal.err # "nil" THEN Result(evtVal.err, evtStr, NoValue)
        ELSE CASE FieldCase(req.id) = "dummy.divisible" ->
                    IF divisor.err # "nil"
                    THEN Result("argument could not be converted", req.arg, NoValue)
                    ELSE IF divisor.val = 0 THEN Result("panic", <<>>, NoValue)
                    ELSE IF Divisible(evtVal.val, divisor.val)
                    THEN Result("nil", <<>>, U64Value(1))
                    ELSE Result("nil", <<>>, U64Value(0))
               [] FieldCase(req.id) = "dummy.value" ->
                    Result("nil", <<>>, U64Value(ToUint64(evtVal.val)))
               [] FieldCase(req.id) = "dummy.strvalue" ->
                    Result("nil", <<>>, StrValue(evtStr))
               [] OTHER -> Result("no known field", req.field, NoValue)

\* mutant of Extract: the decoded value is kept in the plugin
ExtractKeepingValue(req, evt) ==
    LET r == ExtractResult(req, evt)
    IN  /\ panicked = "no"
        /\ last' = [op |-> "Extract", in |-> [req |-> req, evt |-> evt],
                    err |-> r.err, val |-> r.val, msg |-> r.msg]
        /\ panicked' = IF r.err = "panic" THEN "integer divide by zero" ELSE panicked
        /\ jitter' = IF r.val.t = "uint64" THEN r.val.u ELSE jitter
        /\ UNCHANGED <<randSet, inst, pc, n, evts, ret, delivered, written, lastGood>>

Extract(req, evt) ==
    LET r == ExtractResult(req, evt)
    IN  /\ panicked = "no"
        /\ last' = [op |-> "Extract", in |-> [req |-> req, evt |-> evt],
                    err |-> r.err, val |-> r.val, msg |-> r.msg]
        /\ panicked' = IF r.err = "panic" THEN "integer divide by zero" ELSE panicked
        /\ UNCHANGED <<jitter, randSet, inst, pc, n, evts, ret, delivered, written, lastGood>>

\* ------------------------------------------------------------ specification
\* The calls of a host that configures the plugin with one of CC, opens the
\* instances SS (instance s with one of PP[s]) and runs NextBatch on
\* different instances concurrently.
HostNext(SS, CC, PP) ==
    \/ \E cfg \in CC : PluginInit(cfg)
    \/ \E s \in SS : \E prms \in PP[s] : Open(s, prms)
    \/ \E s \in SS : Close(s)
    \/ \E s \in SS, c \in 0 .. MaxCap : NextBatch(s, c)
    \/ \E s \in SS : LoopHead(s)
    \/ \E s \in SS : DrawEnd(s)
    \/ \E s \in SS : Emit(s)

\* one capture: a single instance, every configuration, every prms
Next == HostNext({1}, Cfgs, [s \in Sessions |-> Prms])

Spec == Init /\ [][Next]_vars

\* two captures at once, with different start values, under the
\* configurations with jitter 0
ZeroJitterCfgs ==
    {cfg \in Cfgs : cfg.kind = "malformed" \/ (cfg.keys = {"jitter"} /\ cfg.jitter = 0)}

ConcStarts == [s \in Sessions |-> IF s = 1 THEN {0, Word - 1} ELSE {Half - 1}]

ConcPrms == [s \in Sessions |-> {p \in Prms : OpenResult(p) = "ok" => p.start \in ConcStarts[s]}]

NextConc == HostNext(Sessions, ZeroJitterCfgs, ConcPrms)

SpecConc == Init /\ [][NextConc]_vars

\* ------------------------------------------------- the extractor's inputs
\* strings: an optional sign, then at most MaxDigits characters that are
\* decimal digits or "x", which stands for every other byte
Chars == {"0", "1", "2", "3", "9", "x"}

RECURSIVE CharSeqs(_)
CharSeqs(k) ==
    IF k = 0 THEN {<<>>}
    ELSE CharSeqs(k - 1) \cup {Append(b, c) : b \in CharSeqs(k - 1), c \in Chars}

Strings == {sg \o b : sg \in {<<>>, <<"-">>, <<"+">>}, b \in CharSeqs(MaxDigits)}

\* what the reader of an event yields: its bytes, or a read error
ReaderOf(data) == [readable |-> TRUE, data |-> data]

ReadError == [readable |-> FALSE, data |-> <<>>]

EventReaders == {ReaderOf(d) : d \in Strings} \cup {ReadError}

\* requests: a field of Fields() under its id, or an id Fields() does not
\* have under a name the host made up; an argument for every field
FieldIDs == {0, 1, 2, 3, 99}

FieldNameOf(id) == IF id + 1 \in DOMAIN Fields THEN Fields[id + 1].Name ELSE "dummy.unknown"

Reqs ==
    {[id |-> id, field |-> FieldNameOf(id), arg |-> a] :
        id \in FieldIDs, a \in {<<>>, <<"0">>, <<"x">>}}
    \cup {[id |-> 0, field |-> FieldNameOf(0), arg |-> a] : a \in Strings}

ExtractorNext(RR, EE) ==
    \/ \E req \in RR, evt \in EE : Extract(req, evt)
    \/ \E in \in EE : String(in)

\* one call of the extractor, with every request on every event
NextExtract == last = NoCall /\ ExtractorNext(Reqs, EventReaders)

SpecExtract == Init /\ [][NextExtract]_vars

\* a filtering pipeline that extracts and renders while one capture runs
FilterReqs ==
    {r \in Reqs : \/ r.id = 0 /\ r.arg \in {<<"0">>, <<"2">>}
                  \/ r.id \in {1, 99} /\ r.arg = <<>>}

FilterEvents == {ReaderOf(<<"1">>), ReaderOf(<<"x">>), ReadError}

NextFilter ==
    \/ HostNext({1}, ZeroJitterCfgs, ConcPrms)
    \/ ExtractorNext(FilterReqs, FilterEvents)

SpecFilter == Init /\ [][NextFilter]_vars

\* a host that opens one capture, never closes it and keeps calling
\* NextBatch with room for at least one event; a call that has started runs
\* to its return
CallNextBatch(s) == \E c \in 1 .. MaxCap : NextBatch(s, c)

NextLive ==
    \/ \E cfg \in Cfgs : PluginInit(cfg)
    \/ \E prms \in Prms : Open(1, prms)
    \/ CallNextBatch(1)
    \/ LoopHead(1)
    \/ DrawEnd(1)
    \/ Emit(1)

SpecLive ==
    /\ Init
    /\ [][NextLive]_vars
    /\ WF_vars(CallNextBatch(1))
    /\ WF_vars(LoopHead(1))
    /\ WF_vars(DrawEnd(1))
    /\ WF_vars(Emit(1))

\* ------------------------------------------------------------------ claims
Start(s) == Lookup(inst[s].initParams, "start")

Returned(s) == inst[s].state = "open" /\ pc[s] = "idle" /\ ret[s].err # "none"

\* the slots of s's evts that NextBatch has touched (timestamp set)
Touched(s) == {i \in DOMAIN evts[s] : evts[s][i].ts}

\* C1: once a session opened with maxEvents = M is exhausted (NextBatch has
\* returned sdk.ErrEOF), the events its NextBatch calls returned add up to
\* exactly M and the exhausted call itself returns zero events; and a call
\* made after the M-th event was written returns ErrEOF.
C1_ExhaustionExact ==
    \A s \in Sessions :
        /\ (Returned(s) /\ ret[s].err = "EOF") =>
                (ret[s].n = 0 /\ delivered[s] = inst[s].maxEvents)
        /\ (Returned(s) /\ written[s] = inst[s].maxEvents /\ ret[s].n = 0) =>
                ret[s].err = "EOF"

\* C2: after a NextBatch call that returned a write error, counter equals the
\* number of events whose payload was fully written and sample equals the
\* value of the last fully written event (start if there is none).
C2_WriteFailureKeepsState ==
    \A s \in Sessions :
        (Returned(s) /\ ret[s].err = "io") =>
            (inst[s].counter = written[s] /\ inst[s].sample = lastGood[s])

\* C3: no two instances are inside the draw from MyPlugin.rand at once.
C3_RandSerialized == Cardinality({s \in Sessions : pc[s] = "inrand"}) <= 1

\* everything that belongs to instance s and its running NextBatch call
OwnState(s) == <<inst[s], pc[s], n[s], evts[s], ret[s], delivered[s], written[s], lastGood[s]>>

\* production steps of s whose draw has ended
Produced(s) == IF pc[s] = "inrand" THEN inst[s].counter - 1 ELSE inst[s].counter

\* with jitter 0, sample after n production steps is start + n (uint64)
C4_OwnSequence ==
    jitter = 0 =>
        \A s \in Sessions :
            inst[s].state = "open" => inst[s].sample = ToUint64(Start(s) + Produced(s))

\* C4: two instances of one plugin with jitter 0 and different start values:
\* under every interleaving of their NextBatch steps, each instance's sample
\* after its n-th production step is its own start + n (uint64 arithmetic),
\* and a step of one instance leaves the other's MyInstance, sample and
\* counter included, unchanged.
C4_Isolation ==
    /\ []C4_OwnSequence
    /\ [][\A s, t \in Sessions :
            (s # t /\ OwnState(s)' # OwnState(s)) => inst'[t] = inst[t]]_vars

C4_Witness ==
    /\ jitter = 0
    /\ \A s \in Sessions : inst[s].state = "open" /\ pc[s] = "emit"
    /\ Start(1) # Start(2)
    /\ inst[1].counter = 2
    /\ inst[2].counter = 1

\* C5 (as amended): every NextBatch call returns a count n with
\* 0 <= n <= evts.Len(); a call that returns nil has touched exactly the first
\* n slots, each fully written; a call that returns ErrEOF has touched none; a
\* call that returns a write error returns 0 although it has touched the slots
\* up to and including the failing one; and with capacity 0 on a
\* non-exhausted session the call returns (0, nil).
C5_Capacity ==
    \A s \in Sessions :
        /\ n[s] <= Len(evts[s])
        /\ Returned(s) =>
            /\ ret[s].n \in 0 .. Len(evts[s])
            /\ ret[s].err = "nil" =>
                /\ Touched(s) = 1 .. ret[s].n
                /\ \A i \in Touched(s) : evts[s][i].ok
            /\ ret[s].err = "EOF" => (ret[s].n = 0 /\ Touched(s) = {})
            /\ ret[s].err = "io" =>
                /\ ret[s].n = 0
                /\ Touched(s) = 1 .. (n[s] + 1)
                /\ \A i \in Touched(s) : evts[s][i].ok <=> i <= n[s]
            /\ (Len(evts[s]) = 0 /\ ~AtEOF(s)) => ret[s] = [n |-> 0, err |-> "nil"]

C5_Witness ==
    \E s \in Sessions :
        /\ Returned(s)
        /\ ret[s].err = "io"
        /\ n[s] = 1
        /\ Len(evts[s]) = MaxCap

\* C5 (as claimed): every NextBatch call returns a count n with
\* 0 <= n <= evts.Len(), writes to at most the first n slots it reports, and
\* with capacity 0 on a non-exhausted session returns (0, nil).
C5_CapacityAsClaimed ==
    \A s \in Sessions :
        Returned(s) =>
            /\ ret[s].n \in 0 .. Len(evts[s])
            /\ Touched(s) \subseteq 1 .. ret[s].n
            /\ (Len(evts[s]) = 0 /\ ~AtEOF(s)) => ret[s] = [n |-> 0, err |-> "nil"]

\* C6: in every reachable state of a session, counter <= maxEvents.
C6_CounterBounded == \A s \in Sessions : inst[s].counter <= inst[s].maxEvents

C6_Witness ==
    \E s \in Sessions :
        /\ Returned(s)
        /\ ret[s].err = "EOF"
        /\ inst[s].maxEvents = MaxEventsBound
        /\ inst[s].counter = inst[s].maxEvents
        /\ written[s] < inst[s].counter

\* C7: with jitter 0 and start S, the n-th event a session returns, counted
\* across all its NextBatch calls, carries sample S + n.
C7_ZeroJitterNthEvent ==
    \A s \in Sessions :
        (jitter = 0 /\ Returned(s) /\ ret[s].err = "nil") =>
            \A i \in 1 .. ret[s].n :
                evts[s][i].data =
                    EventString(ToUint64(Start(s) + (delivered[s] - ret[s].n) + i))

\* C8: for every jitter bound J that Init accepts, every production step
\* completes (rand.Int63n does not panic) and raises sample by a value in
\* [1, J+1].
C8_BoundedIncrement ==
    [][/\ panicked' # "Int63n"
       /\ \A s \in Sessions :
            (inst[s].state = "open" /\ inst'[s].state = "open"
                /\ inst'[s].sample # inst[s].sample) =>
                (inst'[s].sample - inst[s].sample) \in 1 .. (jitter + 1)]_vars

\* C9: sample never decreases from one state of a session to the next.
C9_SampleMonotone ==
    [][\A s \in Sessions :
            (inst[s].state = "open" /\ inst'[s].state = "open") =>
                inst'[s].sample >= inst[s].sample]_vars

\* C10: every payload NextBatch writes is the unsigned decimal rendering of
\* the sample it was written for: digits only, no sign, no leading zero.
C10_WireFormat ==
    \A s \in Sessions :
        (inst[s].state = "open" /\ n[s] >= 1) =>
            evts[s][n[s]].data = Digits(lastGood[s])

\* C14: Open on an object lacking start or maxEvents fails with the error
\* that names an absent key (maxEvents when only maxEvents is absent, start
\* when start is absent), Open on unparsable input fails with the parse
\* error, a failing Open creates no instance, and Open succeeds exactly when
\* both keys are present, with counter 0, sample = start and the given
\* maxEvents.
C14_OpenErrors ==
    [][(last'.op = "Open" /\ last' # last) =>
        LET p == last'.in
            e == last'.err
        IN  /\ (e = "ok") <=> (p.valid /\ {"start", "maxEvents"} \subseteq p.keys)
            /\ ~p.valid => e = "parse"
            /\ (p.valid /\ "start" \notin p.keys) => e = "no start"
            /\ (p.valid /\ "start" \in p.keys /\ "maxEvents" \notin p.keys) =>
                    e = "no maxEvents"
            /\ e # "ok" => inst' = inst
            /\ e = "ok" =>
                \E s \in Sessions :
                    /\ inst[s].state = "none"
                    /\ inst'[s].state = "open"
                    /\ inst'[s].counter = 0
                    /\ inst'[s].sample = p.start
                    /\ inst'[s].maxEvents = p.maxEvents
                    /\ \A t \in Sessions \ {s} : inst'[t] = inst[t]]_vars

C14_Witness ==
    /\ last.op = "Open"
    /\ last.in.keys = {"start"}
    /\ last.err = "no maxEvents"
    /\ \A s \in Sessions : inst[s].state = "none"

\* C15: Init with "", with "{}" or with an object without a jitter key sets
\* jitter to 10; Init with an object carrying jitter = J sets jitter to J
\* (J = 0 included); Init with input json.Unmarshal rejects returns the error
\* and leaves jitter and rand as they were.
C15_InitState ==
    last.op = "Init" =>
        /\ (last.err = "nil") <=> (last.in.kind # "malformed")
        /\ last.err = "nil" =>
            /\ randSet
            /\ jitter = IF last.in.kind = "object" /\ "jitter" \in last.in.keys
                        THEN last.in.jitter
                        ELSE 10

C15_Configuration ==
    /\ []C15_InitState
    /\ [][(last'.op = "Init" /\ last'.err # "nil") => UNCHANGED <<jitter, randSet>>]_vars

C15_Witness ==
    /\ last.op = "Init"
    /\ last.in.kind = "malformed"
    /\ last.err # "nil"
    /\ randSet
    /\ jitter = 1

\* what a returned call says about the events left (as amended, see C17)
C17_StatusInv ==
    \A s \in Sessions :
        Returned(s) =>
            /\ ret[s].err = "nil" =>
                /\ inst[s].counter <= inst[s].maxEvents
                /\ inst[s].counter = inst[s].maxEvents => ret[s].n >= 1
            /\ ret[s].err = "EOF" =>
                /\ inst[s].counter = inst[s].maxEvents
                /\ ret[s].n = 0

\* C17 (as amended): when NextBatch returns nil, counter <= maxEvents: events
\* remain, or this call produced the session's last event (it returned
\* n >= 1 with counter = maxEvents) and the next call reports ErrEOF; when it
\* returns ErrEOF, counter = maxEvents, the call returned zero events and no
\* later call produces an event.
C17_Status ==
    /\ []C17_StatusInv
    /\ [][\A s \in Sessions :
            (Returned(s) /\ ret[s].err = "EOF" /\ inst'[s].state = "open") =>
                /\ inst'[s] = inst[s]
                /\ written'[s] = written[s]
                /\ delivered'[s] = delivered[s]
                /\ ret'[s] = ret[s]]_vars
    /\ [][\A s \in Sessions :
            (/\ Returned(s) /\ ret[s].err = "nil"
             /\ inst[s].counter = inst[s].maxEvents
             /\ inst'[s].state = "open" /\ ret'[s] # ret[s]) =>
                ret'[s] = [n |-> 0, err |-> "EOF"]]_vars

C17_Witness ==
    \E s \in Sessions :
        /\ Returned(s)
        /\ ret[s].err = "nil"
        /\ ret[s].n >= 1
        /\ inst[s].counter = inst[s].maxEvents

\* C17 (as claimed): when NextBatch returns nil, events remain
\* (counter < maxEvents after the call); when it returns ErrEOF,
\* counter = maxEvents.
C17_StatusAsClaimed ==
    \A s \in Sessions :
        Returned(s) =>
            /\ ret[s].err = "nil" => inst[s].counter < inst[s].maxEvents
            /\ ret[s].err = "EOF" => inst[s].counter = inst[s].maxEvents

\* C18: a NextBatch call entered with counter = maxEvents (the first call of
\* a session opened with maxEvents = 0 included) returns (0, ErrEOF) and
\* leaves counter, sample, the random source and every event slot as they
\* were: no draw, no timestamp, no payload.
C18_EOFFirst ==
    [][\A s \in Sessions :
            (inst[s].state = "open" /\ pc[s] = "idle"
                /\ inst[s].counter = inst[s].maxEvents /\ inst'[s].state = "open") =>
                /\ pc'[s] = "idle"
                /\ inst'[s] = inst[s]
                /\ written'[s] = written[s]
                /\ delivered'[s] = delivered[s]
                /\ randSet' = randSet
                /\ OwnState(s)' # OwnState(s) =>
                    /\ ret'[s] = [n |-> 0, err |-> "EOF"]
                    /\ Touched(s)' = {}]_vars

C18_Witness ==
    \E s \in Sessions :
        /\ Returned(s)
        /\ ret[s].err = "EOF"
        /\ inst[s].maxEvents = 0
        /\ Len(evts[s]) = MaxCap
        /\ Touched(s) = {}

\* C19: between NextBatch calls, counter equals the sum of the event counts
\* that the session's NextBatch calls returned, calls that returned a write
\* error included.
C19_CountAccounting ==
    \A s \in Sessions :
        (inst[s].state = "open" /\ pc[s] = "idle") => inst[s].counter = delivered[s]

\* the last call was Extract on an event whose payload could be read
Extracted == last.op = "Extract" /\ last.in.evt.readable

Payload == last.in.evt.data

Request == last.in.req

\* C11: for a payload that decodes to the integer v, Extract returns no error
\* and sets: for field id 0 with an argument that parses to a divisor d # 0,
\* the uint64 1 if d divides v (v = k * d for an integer k) and 0 if not; for
\* field id 1, v as a uint64 (v itself, or v + 2^WordBits for a negative v);
\* for field id 2, the payload string as it was read.
C11_ExtractionCorrect ==
    (Extracted /\ Atoi(Payload).err = "nil") =>
        LET v == Atoi(Payload).val
            d == Atoi(Request.arg)
        IN  /\ (Request.id = 0 /\ d.err = "nil" /\ d.val # 0) =>
                /\ last.err = "nil"
                /\ last.val.t = "uint64"
                /\ last.val.u \in {0, 1}
                /\ last.val.u = 1 <=> \E k \in (0 - Half) .. Half : v = k * d.val
            /\ Request.id = 1 =>
                /\ last.err = "nil"
                /\ last.val.t = "uint64"
                /\ last.val.u \in UInt
                /\ last.val.u = IF v < 0 THEN v + Word ELSE v
            /\ Request.id = 2 =>
                /\ last.err = "nil"
                /\ last.val = StrValue(Payload)

C11_Witness ==
    /\ Extracted
    /\ Request.id = 0
    /\ Atoi(Payload).err = "nil" /\ Atoi(Payload).val < 0
    /\ Atoi(Request.arg).err = "nil" /\ Atoi(Request.arg).val > 1
    /\ last.err = "nil"
    /\ last.val = U64Value(1)

\* C12: Extract with field id 0, a payload that decodes and an argument that
\* parses to the divisor 0 returns an error, sets no value and does not
\* panic.
C12_ZeroDivisorIsAnError ==
    (/\ Extracted
     /\ Atoi(Payload).err = "nil"
     /\ Request.id = 0
     /\ Atoi(Request.arg).err = "nil"
     /\ Atoi(Request.arg).val = 0) =>
        /\ last.err \notin {"nil", "panic"}
        /\ last.val = NoValue
        /\ panicked = "no"

\* C13: for a payload that decodes and a field id outside {0, 1, 2}, Extract
\* returns the "no known field" error, which names the field of the request,
\* and sets no value; for a payload that strconv.Atoi rejects, Extract
\* returns Atoi's error for that payload and sets no value, whatever the
\* field id and argument (an unknown id and an unparsable argument included).
C13_UnknownField ==
    Extracted =>
        /\ (Atoi(Payload).err = "nil" /\ Request.id \notin {0, 1, 2}) =>
            /\ last.err = "no known field"
            /\ last.msg = Request.field
            /\ last.val = NoValue
            /\ panicked = "no"
        /\ Atoi(Payload).err # "nil" =>
            /\ last.err \in {"invalid syntax", "value out of range"}
            /\ last.msg = Payload
            /\ last.val = NoValue
            /\ panicked = "no"

C13_Witness ==
    /\ Extracted
    /\ Request.id = 99
    /\ Atoi(Payload).err = "nil"
    /\ last.err = "no known field"
    /\ last.msg = "dummy.unknown"
    /\ last.val = NoValue

\* C16: a step of Extract or String, whatever the field id, argument and
\* payload and whether it returns a value, an error or panics, leaves jitter,
\* the random source and every instance (counter, sample, maxEvents) and
\* every running NextBatch call as they were.
C16_ReadOnly ==
    [][(last' # last /\ last'.op \in {"Extract", "String"}) =>
            /\ jitter' = jitter
            /\ randSet' = randSet
            /\ inst' = inst
            /\ \A s \in Sessions : OwnState(s)' = OwnState(s)]_vars

C16_Witness ==
    /\ last.op = "Extract"
    /\ last.err = "nil"
    /\ \E s \in Sessions : pc[s] = "emit" /\ inst[s].counter = 1 /\ inst[s].maxEvents = 2

\* C20: when the host keeps calling NextBatch with capacity >= 1, an open
\* session eventually gets ErrEOF from NextBatch, whether or not writes fail.
C20_EventualExhaustion ==
    \A s \in Sessions :
        (inst[s].state = "open") ~> (Returned(s) /\ ret[s].err = "EOF")

====
